---- MODULE Spec2Model ----
(***************************************************************************)
(* clang-func-mapping (tools/clang-func-mapping/ClangFnMapGen.cpp).        *)
(*                                                                         *)
(* Every invocation of the tool is one process: main checks -ctu-dir,      *)
(* filters its arguments to sources, and for every source builds a         *)
(* MapFunctionNamesConsumer, walks the unit's declaration tree             *)
(* (handleDecl) and, when the consumer is destroyed, appends its two       *)
(* buffers to externalFns.txt and definedFns.txt through lockedWrite.      *)
(* Invocations run concurrently and share the two dataset files; the       *)
(* system calls of lockedWrite are the interleaving points.                *)
(***************************************************************************)
EXTENDS Integers, Sequences, FiniteSets, TLC

\* ---------------------------------------------------------------- bounds
NumInv == 2      \* concurrent invocations of the tool
MaxDecls == 2    \* declarations in one unit's tree (below the unit itself)
MaxArgs == 2     \* command-line arguments after argv[0]

Invocations == 1..NumInv

\* ------------------------------------------------------------- strings
\* A string is the sequence of its characters (one-character strings; the
\* option name is one token).
RECURSIVE SeqsUpTo(_, _)
SeqsUpTo(S, n) ==
  IF n = 0 THEN {<<>>}
  ELSE LET shorter == SeqsUpTo(S, n - 1)
       IN shorter \cup {Append(s, x) : s \in {t \in shorter : Len(t) = n - 1}, x \in S}

Range(s) == {s[k] : k \in 1..Len(s)}

endswith(arg, Suffix) ==
  /\ Len(arg) >= Len(Suffix)
  /\ SubSeq(arg, Len(arg) - Len(Suffix) + 1, Len(arg)) = Suffix

startswith(arg, Prefix) ==
  /\ Len(arg) >= Len(Prefix)
  /\ SubSeq(arg, 1, Len(Prefix)) = Prefix

cppFile == <<".", "c", "p", "p">>
ccFile == <<".", "c", "c">>
cFile == <<".", "c">>
cxxFile == <<".", "c", "x", "x">>

\* cl::opt<std::string> CTUDir("ctu-dir", ...): an argument -ctu-dir=<dir>.
CTUDirOpt == <<"-", "ctu-dir", "=">>

ProgName == <<"clang-func-mapping">>
CTUDirArg == CTUDirOpt \o <<"d">>
ArgMenu ==
  { CTUDirArg,
    <<"a">> \o cppFile, <<"b">> \o ccFile, <<"c">> \o cFile, <<"d">> \o cxxFile,
    <<"e", ".", "h">>, <<"f", ".", "c", "p">> }

\* How often the option occurs on the command line (CTUDir.getNumOccurrences()).
RECURSIVE getNumOccurrences(_)
getNumOccurrences(args) ==
  IF args = <<>> THEN 0
  ELSE (IF startswith(Head(args), CTUDirOpt) THEN 1 ELSE 0) + getNumOccurrences(Tail(args))

\* main's check of the option.
OptionsOkAtLeastOnce(n) == n >= 1
OptionsOk(n) == n = 1

isSourceArg(arg) ==
  endswith(arg, cppFile) \/ endswith(arg, ccFile) \/ endswith(arg, cFile)
    \/ endswith(arg, cxxFile)

\* The loop for (i = 1; i < argc; i++) of main: args is argv without argv[0].
RECURSIVE FilterSources(_)
FilterSources(args) ==
  IF args = <<>> THEN <<>>
  ELSE (IF isSourceArg(Head(args)) THEN <<Head(args)>> ELSE <<>>) \o FilterSources(Tail(args))

\* -------------------------------------------------- declaration trees
\* What the front end hands to HandleTranslationUnit: a tree of declarations.
\* A function (the entity all its redeclarations share) has a name, a linkage,
\* a builtin ID (0: not a builtin) and a kind; a declaration of it says
\* whether this declaration carries the body, and whether that body starts in
\* the main file or in an included header.
Fn(name, linkage, builtin, kind) ==
  [name |-> name, linkage |-> linkage, builtin |-> builtin, kind |-> kind]

Functions ==
  { Fn("f", "ExternalLinkage", 0, "function"),
    Fn("g", "VisibleNoLinkage", 0, "function"),
    Fn("h", "UniqueExternalLinkage", 0, "function"),
    Fn("s", "InternalLinkage", 0, "function"),
    Fn("n", "NoLinkage", 0, "function"),
    Fn("memcpy", "ExternalLinkage", 1, "function") }

NoFn == Fn("", "NoLinkage", 0, "none")
Bodies == {"none", "main", "header"}

FunctionDecl(fn, body, children) ==
  [kind |-> "Function", fn |-> fn, body |-> body, children |-> children]
ContainerDecl(children) ==
  [kind |-> "Container", fn |-> NoFn, body |-> "none", children |-> children]
OtherDecl == [kind |-> "Other", fn |-> NoFn, body |-> "none", children |-> <<>>]
TranslationUnitDecl(children) ==
  [kind |-> "TranslationUnit", fn |-> NoFn, body |-> "none", children |-> children]
\* The null pointer, as a declaration.
NullDecl == [kind |-> "Null", fn |-> NoFn, body |-> "none", children |-> <<>>]

\* dyn_cast<DeclContext>(D): the unit, namespaces and records, and functions
\* (whose context holds their parameters and block-scope declarations).
isDeclContext(D) == D.kind \in {"TranslationUnit", "Container", "Function"}

\* The declarations of a tree, in the order handleDecl visits them.
RECURSIVE DeclsOf(_), DeclsOfAll(_)
DeclsOf(D) == <<D>> \o DeclsOfAll(D.children)
DeclsOfAll(Ds) == IF Ds = <<>> THEN <<>> ELSE DeclsOf(Head(Ds)) \o DeclsOfAll(Tail(Ds))

FunctionDeclsOf(TU) ==
  {d \in Range(DeclsOf(TU)) : d.kind = "Function"}

\* The parameters of a function declaration: n declarations that are no
\* function and no context.
RECURSIVE Params(_)
Params(n) == IF n = 0 THEN <<>> ELSE <<OtherDecl>> \o Params(n - 1)

\* All sequences of trees with exactly n declarations in all: ns at namespace
\* or class level, block inside a function's body. A function declared in a
\* block has no body; a declaration without a body holds only its parameters.
Forests[n \in 0..MaxDecls] ==
  IF n = 0 THEN [ns |-> {<<>>}, block |-> {<<>>}]
  ELSE
    LET Containers(k) == {ContainerDecl(c) : c \in Forests[k - 1].ns}
        Others(k) == IF k = 1 THEN {OtherDecl} ELSE {}
        Declared(k) == {FunctionDecl(fn, "none", Params(k - 1)) : fn \in Functions}
        Defined(k) ==
          {FunctionDecl(fn, b, c) :
             fn \in Functions, b \in Bodies \ {"none"}, c \in Forests[k - 1].block}
    IN [ns |-> UNION { {<<t>> \o r :
                          t \in Others(k) \cup Containers(k) \cup Declared(k) \cup Defined(k),
                          r \in Forests[n - k].ns} : k \in 1..n },
        block |-> UNION { {<<t>> \o r :
                             t \in Others(k) \cup Containers(k) \cup Declared(k),
                             r \in Forests[n - k].block} : k \in 1..n }]

\* A unit the front end accepts defines a function at most once.
OneDefinition(TU) ==
  LET Ds == DeclsOf(TU)
  IN \A k, m \in 1..Len(Ds) :
       (Ds[k].kind = "Function" /\ Ds[m].kind = "Function" /\ Ds[k].fn = Ds[m].fn
          /\ Ds[k].body # "none" /\ Ds[m].body # "none") => k = m

Units(n) ==
  {TU \in {TranslationUnitDecl(c) : c \in UNION {Forests[k].ns : k \in 0..n}} :
     OneDefinition(TU)}

\* ------------------------------------------------------------ the classifier
Archs == {"x86_64", "arm", "thumb"}

\* getTripleSuffix: the architecture's name, thumb taken as arm.
getTripleSuffix(arch) ==
  LET T == IF arch = "thumb" THEN "arm" ELSE arch
  IN T

\* getMangledName: the complete-object variant for constructors and
\* destructors, the (prototype-forced) mangled name otherwise.
getMangledName(FD) ==
  IF FD.fn.kind = "ctor" THEN <<"_ZN", FD.fn.name, "C1">>
  ELSE IF FD.fn.kind = "dtor" THEN <<"_ZN", FD.fn.name, "D1">>
  ELSE <<"_Z", FD.fn.name>>

\* FunctionDecl::getBody(): the body of whichever declaration of the function
\* carries one in this unit ("none": no declaration of it has a body).
getOwnBody(FD, TU) == FD.body
getBody(FD, TU) ==
  LET defs == {d \in FunctionDeclsOf(TU) : d.fn = FD.fn /\ d.body # "none"}
  IN IF defs = {} THEN "none" ELSE (CHOOSE d \in defs : TRUE).body

getBuiltinID(FD) == FD.fn.builtin

\* llvm::sys::path::append(FileName, a, b): the non-empty components, in order.
pathAppend(FileName, a, b) ==
  FileName \o (IF a = <<>> THEN <<>> ELSE a) \o (IF b = <<>> THEN <<>> ELSE b)

\* realpath of the unit's main file: its absolute path, or <<>> for the null
\* pointer realpath returns when the file cannot be resolved.
realpath(main, resolvable) == IF resolvable THEN <<"/", main>> ELSE <<>>

\* if (CurrentFileName.empty()): the path is resolved only while none is cached.
NeedsResolveAlways(CurrentFileName) == TRUE
NeedsResolve(CurrentFileName) == CurrentFileName = <<>>

\* The switch over FD->getLinkageInternal(): the linkages that are recorded.
RecordedLinkageAny(L) == TRUE
RecordedLinkage(L) ==
  L \in {"ExternalLinkage", "VisibleNoLinkage", "UniqueExternalLinkage"}

\* else if (!FD->getBody() && !FD->getBuiltinID())
IsExternal(FD, TU) == getBody(FD, TU) = "none" /\ getBuiltinID(FD) = 0

\* The consumer's state while it walks one unit.
Consumer(Triple) ==
  [Triple |-> Triple, DefinedFuncsStr |-> <<>>, ExternFuncStr |-> <<>>,
   CurrentFileName |-> <<>>, resolves |-> 0, crashed |-> FALSE]

\* The body of handleDecl for a FunctionDecl (lines 115-145). cx is the
\* unit: its tree, its main file, the target architecture, whether the main
\* file resolves, and the outcome ub of assigning realpath's null pointer to
\* a std::string ("crash": the process dies there; "empty": the string stays
\* empty and the walk goes on).
visitFunction(FD, C, cx) ==
  IF getBody(FD, cx.TU) # "none" THEN
    LET MangledName == getMangledName(FD)
        resolve == NeedsResolve(C.CurrentFileName)
        Path == realpath(cx.main, cx.resolvable)
        crash == resolve /\ Path = <<>> /\ cx.ub = "crash"
        CurrentFileName == IF resolve THEN Path ELSE C.CurrentFileName
        FileName == pathAppend(<<"ast">>, <<getTripleSuffix(cx.arch)>>, CurrentFileName)
        FullName == [name |-> MangledName, triple |-> C.Triple]
        line == [bang |-> getBody(FD, cx.TU) = "main", id |-> FullName, path |-> FileName]
        C1 == [C EXCEPT !.CurrentFileName = CurrentFileName,
                        !.resolves = @ + (IF resolve THEN 1 ELSE 0)]
    IN IF crash THEN [C EXCEPT !.crashed = TRUE, !.resolves = @ + 1]
       ELSE IF RecordedLinkage(FD.fn.linkage)
            THEN [C1 EXCEPT !.DefinedFuncsStr = Append(@, line)]
            ELSE C1
  ELSE IF IsExternal(FD, cx.TU) THEN
    [C EXCEPT !.ExternFuncStr = Append(@, [name |-> getMangledName(FD), triple |-> C.Triple])]
  ELSE C

RECURSIVE handleDecl(_, _, _), handleDecls(_, _, _)
handleDecl(D, C, cx) ==
  IF D = NullDecl \/ C.crashed THEN C
  ELSE LET C1 == IF D.kind = "Function" THEN visitFunction(D, C, cx) ELSE C
       IN IF isDeclContext(D) THEN handleDecls(D.children, C1, cx) ELSE C1
handleDecls(Ds, C, cx) ==
  IF Ds = <<>> THEN C ELSE handleDecls(Tail(Ds), handleDecl(Head(Ds), C, cx), cx)

\* ------------------------------------------------------ the shared datasets
ExternalFns == "externalFns.txt"
DefinedFns == "definedFns.txt"
DatasetFiles == {ExternalFns, DefinedFns}

\* The bytes of a buffer: every line is its text and its newline. A byte
\* remembers the invocation that buffered it and the line's place in the buffer.
RECURSIVE Serialise(_, _, _)
Serialise(lines, owner, k) ==
  IF lines = <<>> THEN <<>>
  ELSE << [owner |-> owner, k |-> k, line |-> Head(lines), part |-> "text"],
          [owner |-> owner, k |-> k, line |-> Head(lines), part |-> "nl"] >>
       \o Serialise(Tail(lines), owner, k + 1)

\* write(2) at offset off: data replaces what is there and extends the file.
PutAt(content, off, data) ==
  SubSeq(content, 1, off) \o data \o SubSeq(content, off + Len(data) + 1, Len(content))

\* open(fileName, O_CREAT | O_WRONLY | O_APPEND, 0666): with O_APPEND every
\* write goes to the end of the file; without it, to the descriptor's own
\* offset, which is 0 after open.
O_APPEND_unset == FALSE
O_APPEND == TRUE
WriteOffset(content) == IF O_APPEND THEN Len(content) ELSE 0

\* if (!content.empty())
ContentNeverEmpty(content) == FALSE
ContentEmpty(content) == content = <<>>

\* flock(fd, LOCK_EX) is granted when no other open file holds a lock.
Grantable(held, i) == held \ {i} = {}

\* flock(fd, LOCK_UN), and the release that close or the process's death
\* brings: invocation i no longer holds the lock.
KeepLock(held, i) == held
Release(held, i) == held \ {i}

\* ------------------------------------------------------------------ state
VARIABLES
  input,      \* per invocation: argv, the trees of its files, the target, realpath's answer
  env,        \* the build (NDEBUG) and whether system calls may fail
  pc,         \* where each invocation is
  exitCode,   \* -1 while running; 0, 1; 134 after abort(), 139 after a crash
  Sources,    \* main's Sources still to be run by ClangTool
  processed,  \* the sources a consumer has been created for, in order
  unit,       \* the source being processed
  consumer,   \* the MapFunctionNamesConsumer of the unit being processed
  lw,         \* lockedWrite's frame: fileName, fd, written
  file,       \* the bytes of each dataset file
  exists,     \* whether each dataset file exists
  holders     \* the invocations holding a lock on each dataset file

vars == <<input, env, pc, exitCode, Sources, processed, unit, consumer, lw, file,
          exists, holders>>

NoFrame == [fileName |-> "", fd |-> 0, written |-> 0]
NoSource == <<>>

\* The buffer lockedWrite is called with for fileName.
BufferOf(i, fileName) ==
  IF fileName = ExternalFns THEN consumer[i].ExternFuncStr ELSE consumer[i].DefinedFuncsStr
ContentOf(i, fileName) == Serialise(BufferOf(i, fileName), i, 1)

\* ------------------------------------------------------------------ inputs
FilesOf(argv) == {a \in Range(Tail(argv)) : ~startswith(a, CTUDirOpt)}

Inputs(ArgvSet, UnitSet, ArchSet, ResolvableSet) ==
  UNION { { [argv |-> a, asts |-> t, arch |-> r, resolvable |-> b] :
              t \in [FilesOf(a) -> UnitSet], r \in ArchSet, b \in ResolvableSet }
          : a \in ArgvSet }

NotLaunched == [argv |-> ProgName, asts |-> <<>>, arch |-> "x86_64", resolvable |-> TRUE]

OneSourceArgv == ProgName \o <<CTUDirArg, <<"a">> \o cppFile>>
AllArgvs == {ProgName \o args : args \in SeqsUpTo(ArgMenu, MaxArgs)}

F == Fn("f", "ExternalLinkage", 0, "function")
G == Fn("g", "VisibleNoLinkage", 0, "function")
Ctor == Fn("T", "ExternalLinkage", 0, "ctor")
Dtor == Fn("T", "ExternalLinkage", 0, "dtor")

\* A few units for the runs that are about the shared files: no line at all,
\* one external line, one line of each kind, and two defined lines only.
EmptyUnit == TranslationUnitDecl(<<>>)
ExternOnlyUnit == TranslationUnitDecl(<<FunctionDecl(F, "none", <<>>)>>)
BothUnit ==
  TranslationUnitDecl(<<FunctionDecl(G, "none", <<>>), FunctionDecl(F, "main", <<>>)>>)
TwoDefinedUnit ==
  TranslationUnitDecl(<<ContainerDecl(<<FunctionDecl(Ctor, "header", <<>>),
                                        FunctionDecl(Dtor, "main", <<>>)>>)>>)
LedgerUnits == {EmptyUnit, ExternOnlyUnit, BothUnit, TwoDefinedUnit}

InitState ==
  /\ exitCode = [i \in Invocations |-> -1]
  /\ Sources = [i \in Invocations |-> <<>>]
  /\ processed = [i \in Invocations |-> <<>>]
  /\ unit = [i \in Invocations |-> NoSource]
  /\ consumer = [i \in Invocations |-> Consumer(<<>>)]
  /\ lw = [i \in Invocations |-> NoFrame]
  /\ file = [f \in DatasetFiles |-> <<>>]
  /\ exists = [f \in DatasetFiles |-> FALSE]
  /\ holders = [f \in DatasetFiles |-> {}]

\* Every invocation is launched, each on one source.
InitAll(UnitSet, ResolvableSet, Faulty, Builds) ==
  /\ input \in [Invocations -> Inputs({OneSourceArgv}, UnitSet, {"x86_64"}, ResolvableSet)]
  /\ env \in {[NDEBUG |-> n, faulty |-> Faulty] : n \in Builds}
  /\ pc = [i \in Invocations |-> "start"]
  /\ InitState

\* One invocation is launched.
InitOne(ArgvSet, UnitSet, ArchSet) ==
  /\ \E a \in ArgvSet : \E t \in [FilesOf(a) -> UnitSet] : \E r \in ArchSet :
       input = [i \in Invocations |->
                  IF i = 1 THEN [argv |-> a, asts |-> t, arch |-> r, resolvable |-> TRUE]
                  ELSE NotLaunched]
  /\ env = [NDEBUG |-> FALSE, faulty |-> FALSE]
  /\ pc = [i \in Invocations |-> IF i = 1 THEN "start" ELSE "absent"]
  /\ InitState

Init == InitAll(LedgerUnits, BOOLEAN, TRUE, BOOLEAN)
InitNominal == InitAll(LedgerUnits, {TRUE}, FALSE, {FALSE})
InitFair == InitAll({BothUnit}, {TRUE}, FALSE, {FALSE})
InitClassifier == InitOne({OneSourceArgv}, Units(MaxDecls), Archs)
InitMain == InitOne(AllArgvs, {BothUnit}, {"x86_64"})

\* ----------------------------------------------------------------- actions
\* main up to the construction of the ClangTool: the option check and the
\* filter of the arguments.
Main(i) ==
  /\ pc[i] = "start"
  /\ LET args == Tail(input[i].argv)
     IN IF ~OptionsOk(getNumOccurrences(args))
        THEN /\ pc' = [pc EXCEPT ![i] = "exited"]
             /\ exitCode' = [exitCode EXCEPT ![i] = 1]
             /\ UNCHANGED Sources
        ELSE /\ pc' = [pc EXCEPT ![i] = "run"]
             /\ Sources' = [Sources EXCEPT ![i] = FilterSources(args)]
             /\ UNCHANGED exitCode
  /\ UNCHANGED <<input, env, processed, unit, consumer, lw, file, exists, holders>>

\* Tool.run takes the next source: CreateASTConsumer builds its consumer.
CreateASTConsumer(i) ==
  /\ pc[i] = "run"
  /\ Sources[i] # <<>>
  /\ unit' = [unit EXCEPT ![i] = Head(Sources[i])]
  /\ Sources' = [Sources EXCEPT ![i] = Tail(Sources[i])]
  /\ processed' = [processed EXCEPT ![i] = Append(@, Head(Sources[i]))]
  /\ consumer' = [consumer EXCEPT ![i] = Consumer(<<"@", getTripleSuffix(input[i].arch)>>)]
  /\ pc' = [pc EXCEPT ![i] = "unit"]
  /\ UNCHANGED <<input, env, exitCode, lw, file, exists, holders>>

\* Tool.run has run every source: main returns 0.
Return(i) ==
  /\ pc[i] = "run"
  /\ Sources[i] = <<>>
  /\ pc' = [pc EXCEPT ![i] = "exited"]
  /\ exitCode' = [exitCode EXCEPT ![i] = 0]
  /\ UNCHANGED <<input, env, Sources, processed, unit, consumer, lw, file, exists, holders>>

\* HandleTranslationUnit: handleDecl over the whole tree of the unit. A crash
\* in it ends the process; the consumer's destructor does not run.
HandleTranslationUnit(i) ==
  /\ pc[i] = "unit"
  /\ \E ub \in {"crash", "empty"} :
       LET cx == [TU |-> input[i].asts[unit[i]], main |-> unit[i], arch |-> input[i].arch,
                  resolvable |-> input[i].resolvable, ub |-> ub]
           C == handleDecl(cx.TU, consumer[i], cx)
       IN /\ consumer' = [consumer EXCEPT ![i] = C]
          /\ pc' = [pc EXCEPT ![i] = IF C.crashed THEN "crashed" ELSE "dtor"]
          /\ exitCode' = [exitCode EXCEPT ![i] = IF C.crashed THEN 139 ELSE @]
  /\ UNCHANGED <<input, env, Sources, processed, unit, lw, file, exists, holders>>

\* ~MapFunctionNamesConsumer calls lockedWrite for externalFns.txt ("dtor")
\* and then for definedFns.txt ("dtor2"); after the second the unit is over.
AfterLockedWrite(fileName) == IF fileName = ExternalFns THEN "dtor2" ELSE "run"

\* lockedWrite is entered: nothing more happens for an empty content.
LockedWrite(i) ==
  /\ pc[i] \in {"dtor", "dtor2"}
  /\ LET fileName == IF pc[i] = "dtor" THEN ExternalFns ELSE DefinedFns
     IN IF ~ContentEmpty(ContentOf(i, fileName))
        THEN /\ pc' = [pc EXCEPT ![i] = "open"]
             /\ lw' = [lw EXCEPT ![i] = [NoFrame EXCEPT !.fileName = fileName]]
        ELSE /\ pc' = [pc EXCEPT ![i] = AfterLockedWrite(fileName)]
             /\ UNCHANGED lw
  /\ UNCHANGED <<input, env, exitCode, Sources, processed, unit, consumer, file, exists,
                 holders>>

\* open: the descriptor, or -1; O_CREAT creates the file.
Open(i) ==
  /\ pc[i] = "open"
  /\ \E ok \in (IF env.faulty THEN BOOLEAN ELSE {TRUE}) :
       /\ lw' = [lw EXCEPT ![i].fd = IF ok THEN 3 ELSE -1]
       /\ exists' = [exists EXCEPT ![lw[i].fileName] = @ \/ ok]
  /\ pc' = [pc EXCEPT ![i] = "flock"]
  /\ UNCHANGED <<input, env, exitCode, Sources, processed, unit, consumer, file, holders>>

\* flock(fd, LOCK_EX): blocks until the lock can be granted. It returns at
\* once, without the lock, on a bad descriptor or when it fails (ENOLCK,
\* EINTR); the result is not looked at.
Flock(i) ==
  /\ pc[i] = "flock"
  /\ \E ok \in (IF lw[i].fd = -1 THEN {FALSE} ELSE IF env.faulty THEN BOOLEAN ELSE {TRUE}) :
       IF ok
       THEN /\ Grantable(holders[lw[i].fileName], i)
            /\ holders' = [holders EXCEPT ![lw[i].fileName] = @ \cup {i}]
       ELSE UNCHANGED holders
  /\ pc' = [pc EXCEPT ![i] = "write"]
  /\ UNCHANGED <<input, env, exitCode, Sources, processed, unit, consumer, lw, file, exists>>

\* What write(fd, content.data(), content.size()) may return.
WriteResults(fd, size) ==
  IF fd = -1 THEN {-1}
  ELSE IF env.faulty THEN {-1} \cup (1..size)
  ELSE {size}

\* write, and the assert on its result: with assertions compiled in, a result
\* other than the content's size aborts the process, whose descriptors the
\* system closes (which drops its lock).
Write(i) ==
  /\ pc[i] = "write"
  /\ LET fileName == lw[i].fileName
         content == ContentOf(i, fileName)
     IN \E written \in WriteResults(lw[i].fd, Len(content)) :
          LET failed == written # Len(content) /\ ~env.NDEBUG
          IN /\ file' = [file EXCEPT ![fileName] =
                           IF written > 0
                           THEN PutAt(@, WriteOffset(@), SubSeq(content, 1, written))
                           ELSE @]
             /\ lw' = [lw EXCEPT ![i].written = written,
                                 ![i].fd = IF failed THEN 0 ELSE @]
             /\ pc' = [pc EXCEPT ![i] = IF failed THEN "aborted" ELSE "unlock"]
             /\ exitCode' = [exitCode EXCEPT ![i] = IF failed THEN 134 ELSE @]
             /\ holders' = [holders EXCEPT ![fileName] =
                              IF failed THEN Release(@, i) ELSE @]
  /\ UNCHANGED <<input, env, Sources, processed, unit, consumer, exists>>

\* flock(fd, LOCK_UN)
Unlock(i) ==
  /\ pc[i] = "unlock"
  /\ holders' = [holders EXCEPT ![lw[i].fileName] = Release(@, i)]
  /\ pc' = [pc EXCEPT ![i] = "close"]
  /\ UNCHANGED <<input, env, exitCode, Sources, processed, unit, consumer, lw, file, exists>>

\* close(fd): a lock still held through the descriptor goes with it.
Close(i) ==
  /\ pc[i] = "close"
  /\ holders' = [holders EXCEPT ![lw[i].fileName] = Release(@, i)]
  /\ lw' = [lw EXCEPT ![i].fd = 0]
  /\ pc' = [pc EXCEPT ![i] = AfterLockedWrite(lw[i].fileName)]
  /\ UNCHANGED <<input, env, exitCode, Sources, processed, unit, consumer, file, exists>>

Step(i) ==
  \/ Main(i)
  \/ CreateASTConsumer(i)
  \/ Return(i)
  \/ HandleTranslationUnit(i)
  \/ LockedWrite(i)
  \/ Open(i)
  \/ Flock(i)
  \/ Write(i)
  \/ Unlock(i)
  \/ Close(i)

Next == \E i \in Invocations : Step(i)

\* Every system call may fail, the main file may not resolve.
Spec == Init /\ [][Next]_vars
\* Every system call succeeds and the main file resolves.
SpecNominal == InitNominal /\ [][Next]_vars
\* Every invocation flushes a line to each file; every invocation that can
\* take a step eventually takes one (a free lock is eventually granted).
SpecFair ==
  InitFair /\ [][Next]_vars
    /\ \A i \in Invocations : WF_vars(Step(i))
\* One invocation, every declaration tree of up to MaxDecls declarations.
SpecClassifier == InitClassifier /\ [][Next]_vars
\* One invocation, every command line of up to MaxArgs arguments.
SpecMain == InitMain /\ [][Next]_vars

\* ------------------------------------------------------------------ claims
Finished(i) == pc[i] \in {"absent", "exited", "aborted", "crashed"}
AllFinished == \A i \in Invocations : Finished(i)

RECURSIVE SumLines(_, _)
SumLines(n, fileName) ==
  IF n = 0 THEN 0 ELSE Len(BufferOf(n, fileName)) + SumLines(n - 1, fileName)

NewlinesIn(content) == Cardinality({k \in 1..Len(content) : content[k].part = "nl"})
OwnersIn(content) == {content[k].owner : k \in 1..Len(content)}

\* The buffer of invocation i lies in the file in one piece.
OneBlock(i, fileName) ==
  LET c == ContentOf(i, fileName)
  IN c # <<>> =>
       \E off \in 0..Len(file[fileName]) :
         SubSeq(file[fileName], off + 1, off + Len(c)) = c

\* C1: when N invocations, interleaved in any way, have all flushed to the
\* same directory, each dataset file holds as many lines as the invocations
\* buffered for it in total, every buffer lies in it as one contiguous block,
\* and the file holds nothing else (no line is split or mixed with another's).
C1_FlushesAddUp ==
  AllFinished =>
    \A f \in DatasetFiles :
      /\ NewlinesIn(file[f]) = SumLines(NumInv, f)
      /\ Len(file[f]) = 2 * SumLines(NumInv, f)
      /\ \A i \in Invocations : OneBlock(i, f)

\* C1's case: all have finished and two invocations wrote to the same file.
C1_Witness ==
  /\ AllFinished
  /\ \E f \in DatasetFiles : Cardinality(OwnersIn(file[f])) >= 2

FileNameAt(p) == IF p = "dtor" THEN ExternalFns ELSE DefinedFns
InLockedWrite(i) == pc[i] \in {"open", "flock", "write", "unlock", "close"}

\* C6: lockedWrite with an empty buffer returns at once and leaves the files,
\* their existence, the locks and the descriptors as they are; a file is
\* opened, exists or holds bytes only through an invocation whose buffer for
\* it is not empty.
C6_EmptyBufferTouchesNothing ==
  /\ [](\A f \in DatasetFiles :
          /\ (exists[f] \/ file[f] # <<>>) => \E i \in Invocations : BufferOf(i, f) # <<>>
          /\ \A i \in Invocations :
               (InLockedWrite(i) /\ lw[i].fileName = f) => BufferOf(i, f) # <<>>)
  /\ [][\A i \in Invocations :
          (pc[i] \in {"dtor", "dtor2"} /\ pc'[i] # pc[i]
             /\ BufferOf(i, FileNameAt(pc[i])) = <<>>)
          => /\ pc'[i] = (IF pc[i] = "dtor" THEN "dtor2" ELSE "run")
             /\ UNCHANGED <<file, exists, holders, lw>>]_vars

\* C6's case: a unit with external lines and no defined line has been flushed
\* and exited, and definedFns.txt still does not exist.
C6_Witness ==
  \E i \in Invocations :
    /\ pc[i] = "exited"
    /\ consumer[i].ExternFuncStr # <<>>
    /\ consumer[i].DefinedFuncsStr = <<>>
    /\ exists[ExternalFns]
    /\ ~exists[DefinedFns]

\* C8: an invocation about to write to a dataset file holds the exclusive
\* lock on it, no lock has two holders, and a lock is held only between its
\* acquisition and its release, by an invocation that has the file open.
C8_WriteOnlyUnderLock ==
  /\ \A i \in Invocations :
       (pc[i] = "write" /\ lw[i].fd # -1) => i \in holders[lw[i].fileName]
  /\ \A f \in DatasetFiles : Cardinality(holders[f]) <= 1
  /\ \A f \in DatasetFiles : \A i \in holders[f] :
       pc[i] \in {"write", "unlock"} /\ lw[i].fileName = f /\ lw[i].fd = 3

\* The last write of invocation i returned something else than the size of
\* the buffer it was given.
WriteFellShort(i) ==
  /\ lw[i].fileName # ""
  /\ pc[i] \notin {"open", "flock", "write"}
  /\ lw[i].written # Len(ContentOf(i, lw[i].fileName))

\* C4: an invocation whose write did not write the whole buffer has aborted
\* at that write: it goes on to nothing else and does not exit normally.
C4_ShortWriteAborts ==
  \A i \in Invocations : WriteFellShort(i) => pc[i] = "aborted"

\* C9: under fair granting of the locks every invocation that starts its
\* flush finishes it, with both locks released and its descriptor closed; and
\* an invocation waiting for a lock holds none, a lock being held only from
\* its acquisition to the release right after the single write.
C9_FlushTerminates ==
  /\ \A i \in Invocations :
       (pc[i] = "dtor") ~>
         (pc[i] = "exited" /\ lw[i].fd = 0 /\ \A f \in DatasetFiles : i \notin holders[f])
  /\ [](\A i \in Invocations : \A f \in DatasetFiles :
          i \in holders[f] => (pc[i] \in {"write", "unlock"} /\ lw[i].fileName = f))

\* C9's case: an invocation waits for a lock that another one holds.
C9_Witness ==
  \E i, j \in Invocations :
    /\ i # j
    /\ pc[i] = "flock"
    /\ j \in holders[lw[i].fileName]

\* The consumer of invocation i has walked the tree of its current unit.
Walked(i) == unit[i] # NoSource /\ pc[i] \notin {"absent", "start", "unit"}
TreeOf(i) == input[i].asts[unit[i]]

IdOf(i, D) == [name |-> getMangledName(D), triple |-> consumer[i].Triple]
DefinedIds(i) == {l.id : l \in Range(consumer[i].DefinedFuncsStr)}
ExternIds(i) == Range(consumer[i].ExternFuncStr)

\* Function fn has a declaration with a body in tree TU.
DefinedIn(fn, TU) == \E e \in FunctionDeclsOf(TU) : e.fn = fn /\ e.body # "none"

\* C2: in no unit does an identity (mangled name and @arch) stand both in a
\* line of the Defined buffer and in a line of the External buffer, also when
\* the defined function has further declarations without a body.
C2_DefinedNeverExternal ==
  \A i \in Invocations : DefinedIds(i) \cap ExternIds(i) = {}

\* C2's case: the unit declares a function it also defines, and the function
\* is in the Defined buffer.
C2_Witness ==
  \E i \in Invocations :
    /\ Walked(i)
    /\ \E d, e \in FunctionDeclsOf(TreeOf(i)) :
         /\ d.fn = e.fn /\ d.body # "none" /\ e.body = "none"
         /\ IdOf(i, d) \in DefinedIds(i)

ExternalIsh == {"ExternalLinkage", "VisibleNoLinkage", "UniqueExternalLinkage"}

\* C3 as stated: a visited function declaration whose linkage is none of
\* ExternalLinkage, VisibleNoLinkage, UniqueExternalLinkage, or whose builtin
\* ID is not zero, has no line in the Defined buffer nor in the External one,
\* with a body or without.
C3_InternalAndBuiltinsNeverListed ==
  \A i \in Invocations :
    Walked(i) =>
      \A d \in FunctionDeclsOf(TreeOf(i)) :
        (d.fn.linkage \notin ExternalIsh \/ d.fn.builtin # 0)
          => IdOf(i, d) \notin DefinedIds(i) \cup ExternIds(i)

\* C3 amended: a function the unit defines whose linkage is none of the three,
\* and a builtin the unit does not define, have no line in either buffer; a
\* function the unit only declares and that is no builtin has an External
\* line whatever its linkage, and a function the unit defines with one of the
\* three linkages has a Defined line, builtin or not.
C3_ListedByBodyThenLinkageOrBuiltin ==
  \A i \in Invocations :
    Walked(i) =>
      \A d \in FunctionDeclsOf(TreeOf(i)) :
        LET defined == DefinedIn(d.fn, TreeOf(i))
            listed == IdOf(i, d) \in DefinedIds(i) \cup ExternIds(i)
        IN /\ (defined /\ d.fn.linkage \notin ExternalIsh) => ~listed
           /\ (~defined /\ d.fn.builtin # 0) => ~listed
           /\ (~defined /\ d.fn.builtin = 0) => IdOf(i, d) \in ExternIds(i)
           /\ (defined /\ d.fn.linkage \in ExternalIsh) => IdOf(i, d) \in DefinedIds(i)

\* C3's case: a walked unit defines an internal-linkage function.
C3_Witness ==
  \E i \in Invocations :
    /\ Walked(i)
    /\ \E d \in FunctionDeclsOf(TreeOf(i)) :
         d.fn.linkage = "InternalLinkage" /\ d.body # "none"

\* C7: within a unit the main file's path is resolved at most once, by the
\* first function with a body, and every Defined line carries the path
\* ast/<arch>/<absolute path of the main file> with the <arch> of its own
\* @<arch> suffix, wherever the function's body comes from.
C7_OnePathPerUnit ==
  \A i \in Invocations :
    /\ consumer[i].resolves <= 1
    /\ Walked(i) =>
         consumer[i].resolves =
           (IF \E d \in FunctionDeclsOf(TreeOf(i)) : d.body # "none" THEN 1 ELSE 0)
    /\ \A k \in 1..Len(consumer[i].DefinedFuncsStr) :
         LET l == consumer[i].DefinedFuncsStr[k]
         IN /\ l.id.triple = <<"@", IF input[i].arch = "thumb" THEN "arm" ELSE input[i].arch>>
            /\ l.path = <<"ast", l.id.triple[2], "/", unit[i]>>

\* C7's case: a thumb unit with two Defined lines, one function's body in the
\* main file and the other's in a header.
C7_Witness ==
  \E i \in Invocations :
    /\ Walked(i)
    /\ input[i].arch = "thumb"
    /\ \E k, m \in 1..Len(consumer[i].DefinedFuncsStr) :
         consumer[i].DefinedFuncsStr[k].bang /\ ~consumer[i].DefinedFuncsStr[m].bang

OptionCount(args) ==
  Cardinality({k \in 1..Len(args) : startswith(args[k], <<"-", "ctu-dir", "=">>)})
EndsInSourceSuffix(a) ==
  \E sfx \in {<<".", "c", "p", "p">>, <<".", "c", "c">>, <<".", "c">>, <<".", "c", "x", "x">>} :
    endswith(a, sfx)
Untouched(i) ==
  /\ lw[i] = NoFrame
  /\ \A f \in DatasetFiles : file[f] = <<>> /\ ~exists[f] /\ holders[f] = {}

\* C5: with -ctu-dir given zero times or more than once, main exits with 1
\* before any unit is processed and no dataset file is opened, created or
\* written; with -ctu-dir given once, it exits with 0 after every argument
\* ending in .cpp, .cc, .c or .cxx has been processed as one unit, in order.
C5_OneCtuDirOrExit1 ==
  \A i \in Invocations :
    pc[i] # "absent" =>
      LET args == Tail(input[i].argv)
      IN /\ OptionCount(args) # 1 =>
              /\ pc[i] \in {"start", "exited"}
              /\ pc[i] = "exited" => exitCode[i] = 1
              /\ processed[i] = <<>>
              /\ Untouched(i)
         /\ (OptionCount(args) = 1 /\ pc[i] = "exited") =>
              /\ exitCode[i] = 0
              /\ processed[i] = SelectSeq(args, EndsInSourceSuffix)
              /\ \A f \in DatasetFiles : NewlinesIn(file[f]) = Len(processed[i])

\* C5's case: a command line with a source and no -ctu-dir has exited with 1.
C5_Witness ==
  \E i \in Invocations :
    /\ exitCode[i] = 1
    /\ \E k \in 2..Len(input[i].argv) : EndsInSourceSuffix(input[i].argv[k])

====
